---------------------------- MODULE Spec2Model ----------------------------
(***************************************************************************)
(* Model of the Gmail MCP server (src/gmail/src/index.ts):                 *)
(*   - the OAuth2 credential lifecycle: initializeGmailClient,             *)
(*     authenticateOAuth2, getAuthUrlAndWaitForCallback, saveToken,        *)
(*     loadToken;                                                          *)
(*   - the chunked loops of gmail_batch_modify_emails and                  *)
(*     gmail_batch_delete_emails;                                          *)
(*   - createEmailMessage, as gmail_send_email and gmail_draft_email call  *)
(*     it;                                                                 *)
(*   - extractEmailContent and what gmail_read_email, gmail_get_draft and  *)
(*     gmail_get_thread show of its result.                                *)
(* The server runs on one Node.js event loop: a synchronous stretch of     *)
(* code is one action, and every `await` is a point where other callbacks  *)
(* may run.                                                                *)
(***************************************************************************)
EXTENDS Integers, Sequences, FiniteSets, TLC

(***************************************************************************)
(* Bounds of the model.                                                    *)
(***************************************************************************)
\* concurrent or successive tool invocations that call initializeGmailClient
MaxCalls == 2
\* requests to /oauth/callback received by the listeners over a run
MaxReq == 2

\* length of the messageIds list of a batch tool call
MaxIds == 4
\* largest batchSize argument
MaxChunk == 3
\* smallest batchSize argument is 0 - MaxNeg (the schema is z.number())
MaxNeg == 1
\* how far below 0 the loop index of a batch tool is followed
MaxBack == 2

\* longest body argument of a send or draft tool call, in code units
MaxStr == 2
\* largest value Date.now() returns
MaxClock == 1
\* most parts of a message payload
MaxParts == 4

Calls == 1..MaxCalls

(***************************************************************************)
(* State.                                                                  *)
(***************************************************************************)
VARIABLES
  env,          \* process.env: GOOGLE_CLIENT_ID, GOOGLE_CLIENT_SECRET, GOOGLE_APPLICATION_CREDENTIALS
  gmailClient,  \* the module-level shared client (null at start)
  tokenFile,    \* gmail-token.json at TOKEN_PATH
  pc,           \* per call: where its initializeGmailClient is suspended
  result,       \* per call: what initializeGmailClient delivered to the tool
  creds,        \* per call: credentials held by the call's OAuth2Client
  urlOpened,    \* per call: open(authUrl) was invoked
  listener,     \* per call: the http server created by its authorization attempt
  timer,        \* per call: the 300000 ms setTimeout of its attempt
  outcome,      \* per call: state of the promise getAuthUrlAndWaitForCallback returns
  reqs,         \* requests to the callback path handled by the servers, in arrival order
  saves,        \* log of saveToken calls: the request that saved and the tokens
  loads,        \* number of loadToken calls
  crashed,      \* the process died on an unhandled 'error' event
  live,         \* per call: how the liveness check of its loaded record went
  tool,         \* the batch tool invoked: "modify", "delete", or "none"
  messageIds,   \* its messageIds argument
  batchSize,    \* its batchSize argument
  bpc,          \* where the batch tool's handler is
  clientOk,     \* whether its `await initializeGmailClient()` returned a client
  i,            \* loop index of the chunk loop
  batch,        \* positions (1-based) of messageIds in the current chunk
  items,        \* per position: the promise of its async per-item function
  invoked,      \* per position: times the gateway operation was invoked
  opFailed,     \* positions whose gateway operation threw
  completion,   \* positions in the order their operations settled
  results,      \* the results array
  response,     \* what the tool returned
  mail,         \* arguments of a gmail_send_email or gmail_draft_email call
  mpc,          \* where that call's handler is
  email,        \* the email text createEmailMessage encodes
  raw,          \* the string createEmailMessage returned
  reader,       \* the read tool invoked: "read", "draft", "thread", or "none"
  doc,          \* the parts of the stored message, in document order
  rpc,          \* where the read tool's handler is
  extracted,    \* what extractEmailContent returned
  shown,        \* the body the tool wrote and whether it noted a substitution
  readFailed    \* the read tool answered from its catch

authVars == <<env, gmailClient, tokenFile, pc, result, creds, urlOpened,
              listener, timer, outcome, reqs, saves, loads, crashed, live>>

batchVars == <<tool, messageIds, batchSize, bpc, clientOk, i, batch, items,
               invoked, opFailed, completion, results, response>>

mimeVars == <<mail, mpc, email, raw>>

readVars == <<reader, doc, rpc, extracted, shown, readFailed>>

vars == <<authVars, batchVars, mimeVars, readVars>>

(***************************************************************************)
(* Values.                                                                 *)
(***************************************************************************)
\* let gmailClient: gmail_v1.Gmail | null = null
NullClient == [kind |-> "null", of |-> 0]

\* google.gmail({version: 'v1', auth}) of call c, auth being its OAuth2Client
OAuthClient(c) == [kind |-> "oauth2", of |-> c]

\* google.gmail({version: 'v1', auth}) of call c, auth being a GoogleAuth
ServiceClient(c) == [kind |-> "service", of |-> c]

\* a token set; at = <<"none", 0>> is a record without access_token
NoAccess == <<"none", 0>>
NoCreds == [at |-> NoAccess, rt |-> FALSE]

\* the token sets a credential file written by an earlier run can hold
FileTokens == [at : {NoAccess, <<"file", 0>>}, rt : BOOLEAN]

\* the token sets oauth2Client.getToken(code) can resolve to for request r
ExchangeTokens(r) == [at : {NoAccess, <<"exch", r>>}, rt : {TRUE}]

NoFile == [exists |-> FALSE, parses |-> FALSE, tok |-> NoCreds]

\* saveToken without the write: the file is left as never written
saveToken_NoWrite(token) == NoFile

\* fs.writeFileSync(TOKEN_PATH, JSON.stringify(token, null, 2))
saveToken(token) == [exists |-> TRUE, parses |-> TRUE, tok |-> token]

\* loadToken that finds no record whatever the file holds
loadToken_Null(file) == <<>>

\* loadToken: the parsed record, or null (the empty sequence) when the file
\* is missing or JSON.parse throws
loadToken(file) == IF file.exists /\ file.parses THEN <<file.tok>> ELSE <<>>

\* Error messages thrown inside authenticateOAuth2 / getAuthUrlAndWaitForCallback
MissingCredentialsMsg == "Missing OAuth2 credentials"
NoCodeMsg == "No authorization code received"
ExchangeFailedMsg == "getToken rejected"
TimeoutMsg == "Authentication timeout"

\* the environment variables an error message names
SettingsNamed(msg) ==
  IF msg = MissingCredentialsMsg
  THEN {"GOOGLE_CLIENT_ID", "GOOGLE_CLIENT_SECRET"}
  ELSE {}

NoResult == [status |-> "none", msg |-> "", client |-> NullClient]
Returned(client) == [status |-> "ok", msg |-> "", client |-> client]
\* throw new Error(`Failed to initialize Gmail client: ${error.message}`)
Failed(msg) == [status |-> "error", msg |-> msg, client |-> NullClient]

\* mutant: the test written with && (throws only when both are missing)
HasOAuthConfig_Either(e) == e.id \/ e.secret

\* if (!clientId || !clientSecret) throw ...
HasOAuthConfig(e) == e.id /\ e.secret

\* server.close()
serverClose(l) == IF l = "listening" THEN "closed" ELSE l

\* mutant: the catch block answers and rejects without closing the server
CatchListener_NoClose(l) == l

\* what the handler's catch block leaves of the listener: server.close()
CatchListener(l) == serverClose(l)

\* the branch the request handler takes: req.url?.startsWith('/oauth/callback'),
\* then `if (code)`
HandlerBranch(isCallback, hasCode) ==
  IF ~isCallback THEN "ignore"
  ELSE IF hasCode THEN "exchange"
  ELSE "throw"

PortInUse == \E d \in Calls : listener[d] = "listening"

\* call c enters initializeGmailClient: calls are numbered in the order in
\* which they enter
Enters(c) == pc[c] = "idle" /\ \A d \in Calls : d < c => pc[d] # "idle"

(***************************************************************************)
(* Initial states: the process has just started.                           *)
(***************************************************************************)
AuthStart ==
  /\ env \in [id : BOOLEAN, secret : BOOLEAN, svc : BOOLEAN]
  /\ gmailClient = NullClient
  /\ tokenFile \in {NoFile}
        \cup [exists : {TRUE}, parses : {FALSE}, tok : {NoCreds}]
        \cup [exists : {TRUE}, parses : {TRUE}, tok : FileTokens]
  /\ pc = [c \in Calls |-> "idle"]
  /\ result = [c \in Calls |-> NoResult]
  /\ creds = [c \in Calls |-> NoCreds]
  /\ urlOpened = [c \in Calls |-> FALSE]
  /\ listener = [c \in Calls |-> "none"]
  /\ timer = [c \in Calls |-> "none"]
  /\ outcome = [c \in Calls |-> "none"]
  /\ reqs = <<>>
  /\ saves = <<>>
  /\ loads = 0
  /\ crashed = FALSE
  /\ live = [c \in Calls |-> "none"]

(***************************************************************************)
(* Settling the promise of getAuthUrlAndWaitForCallback.  A promise        *)
(* settles once; the awaiting authenticateOAuth2 and initializeGmailClient *)
(* resume in microtasks, before any other callback.                        *)
(***************************************************************************)
\* resolve(): authenticateOAuth2 returns oauth2Client, initializeGmailClient
\* sets gmailClient and returns it
Resolve(c) ==
  IF outcome[c] = "pending"
  THEN /\ outcome' = [outcome EXCEPT ![c] = "resolved"]
       /\ gmailClient' = OAuthClient(c)
       /\ pc' = [pc EXCEPT ![c] = "done"]
       /\ result' = [result EXCEPT ![c] = Returned(OAuthClient(c))]
  ELSE UNCHANGED <<outcome, gmailClient, pc, result>>

\* a reject that took effect on a promise already settled
Reject_Settled(c, msg) ==
  /\ outcome' = [outcome EXCEPT ![c] = "rejected"]
  /\ pc' = [pc EXCEPT ![c] = "done"]
  /\ result' = [result EXCEPT ![c] = Failed(msg)]
  /\ UNCHANGED gmailClient

\* reject(error): the error propagates to the catch of initializeGmailClient
Reject(c, msg) ==
  IF outcome[c] = "pending"
  THEN /\ outcome' = [outcome EXCEPT ![c] = "rejected"]
       /\ pc' = [pc EXCEPT ![c] = "done"]
       /\ result' = [result EXCEPT ![c] = Failed(msg)]
       /\ UNCHANGED gmailClient
  ELSE UNCHANGED <<outcome, gmailClient, pc, result>>

(***************************************************************************)
(* initializeGmailClient, up to its first await.                           *)
(***************************************************************************)
\* if (gmailClient) return gmailClient
CallCached(c) ==
  /\ ~crashed /\ Enters(c)
  /\ gmailClient # NullClient
  /\ pc' = [pc EXCEPT ![c] = "done"]
  /\ result' = [result EXCEPT ![c] = Returned(gmailClient)]
  /\ UNCHANGED <<env, gmailClient, tokenFile, creds, urlOpened, listener,
                 timer, outcome, reqs, saves, loads, crashed>>
  /\ UNCHANGED live
  /\ UNCHANGED <<batchVars, mimeVars, readVars>>

\* GOOGLE_APPLICATION_CREDENTIALS set: new GoogleAuth, no await
CallService(c) ==
  /\ ~crashed /\ Enters(c)
  /\ gmailClient = NullClient
  /\ env.svc
  /\ gmailClient' = ServiceClient(c)
  /\ pc' = [pc EXCEPT ![c] = "done"]
  /\ result' = [result EXCEPT ![c] = Returned(ServiceClient(c))]
  /\ UNCHANGED <<env, tokenFile, creds, urlOpened, listener, timer, outcome,
                 reqs, saves, loads, crashed>>
  /\ UNCHANGED live
  /\ UNCHANGED <<batchVars, mimeVars, readVars>>

\* authenticateOAuth2 throws on missing client id or secret
CallConfigError(c) ==
  /\ ~crashed /\ Enters(c)
  /\ gmailClient = NullClient
  /\ ~env.svc
  /\ ~HasOAuthConfig(env)
  /\ pc' = [pc EXCEPT ![c] = "done"]
  /\ result' = [result EXCEPT ![c] = Failed(MissingCredentialsMsg)]
  /\ UNCHANGED <<env, gmailClient, tokenFile, creds, urlOpened, listener,
                 timer, outcome, reqs, saves, loads, crashed>>
  /\ UNCHANGED live
  /\ UNCHANGED <<batchVars, mimeVars, readVars>>

\* authenticateOAuth2 loads a saved token, setCredentials, awaits getAccessToken
CallLiveness(c) ==
  /\ ~crashed /\ Enters(c)
  /\ gmailClient = NullClient
  /\ ~env.svc
  /\ HasOAuthConfig(env)
  /\ loadToken(tokenFile) # <<>>
  /\ loads' = loads + 1
  /\ creds' = [creds EXCEPT ![c] = loadToken(tokenFile)[1]]
  /\ pc' = [pc EXCEPT ![c] = "liveness"]
  /\ live' = [live EXCEPT ![c] = "checking"]
  /\ UNCHANGED <<env, gmailClient, tokenFile, result, urlOpened, listener,
                 timer, outcome, reqs, saves, crashed>>
  /\ UNCHANGED <<batchVars, mimeVars, readVars>>

\* authenticateOAuth2 finds no saved token and enters
\* getAuthUrlAndWaitForCallback, which awaits open(authUrl)
CallInteractive(c) ==
  /\ ~crashed /\ Enters(c)
  /\ gmailClient = NullClient
  /\ ~env.svc
  /\ HasOAuthConfig(env)
  /\ loadToken(tokenFile) = <<>>
  /\ loads' = loads + 1
  /\ urlOpened' = [urlOpened EXCEPT ![c] = TRUE]
  /\ pc' = [pc EXCEPT ![c] = "opening"]
  /\ live' = [live EXCEPT ![c] = "norecord"]
  /\ UNCHANGED <<env, gmailClient, tokenFile, result, creds, listener, timer,
                 outcome, reqs, saves, crashed>>
  /\ UNCHANGED <<batchVars, mimeVars, readVars>>

(***************************************************************************)
(* authenticateOAuth2 after `await oauth2Client.getAccessToken()`.         *)
(***************************************************************************)
\* the stored access token is still usable: nothing is refreshed
LivenessValid(c) ==
  /\ ~crashed /\ pc[c] = "liveness"
  /\ creds[c].at # NoAccess
  /\ gmailClient' = OAuthClient(c)
  /\ pc' = [pc EXCEPT ![c] = "done"]
  /\ result' = [result EXCEPT ![c] = Returned(OAuthClient(c))]
  /\ live' = [live EXCEPT ![c] = "ok"]
  /\ UNCHANGED <<env, tokenFile, creds, urlOpened, listener, timer, outcome,
                 reqs, saves, loads, crashed>>
  /\ UNCHANGED <<batchVars, mimeVars, readVars>>

\* the library refreshed the access token with the refresh token; the code
\* returns the client (line 153) without a saveToken call
LivenessRefreshed(c) ==
  /\ ~crashed /\ pc[c] = "liveness"
  /\ creds[c].rt
  /\ creds' = [creds EXCEPT ![c] = [at |-> <<"refresh", c>>, rt |-> TRUE]]
  /\ gmailClient' = OAuthClient(c)
  /\ pc' = [pc EXCEPT ![c] = "done"]
  /\ result' = [result EXCEPT ![c] = Returned(OAuthClient(c))]
  /\ live' = [live EXCEPT ![c] = "ok"]
  /\ UNCHANGED <<env, tokenFile, urlOpened, listener, timer, outcome, reqs,
                 saves, loads, crashed>>
  /\ UNCHANGED <<batchVars, mimeVars, readVars>>

\* the catch block clearing the credentials of the client
AfterFailedCheck_Cleared(credentials) == NoCreds

\* what the catch block after getAccessToken leaves of the client's
\* credentials: it only logs, the record set by setCredentials stays
AfterFailedCheck(credentials) == credentials

\* getAccessToken throws: caught, falls through to the interactive flow
LivenessFailed(c) ==
  /\ ~crashed /\ pc[c] = "liveness"
  /\ urlOpened' = [urlOpened EXCEPT ![c] = TRUE]
  /\ pc' = [pc EXCEPT ![c] = "opening"]
  /\ live' = [live EXCEPT ![c] = "failed"]
  /\ creds' = [creds EXCEPT ![c] = AfterFailedCheck(@)]
  /\ UNCHANGED <<env, gmailClient, tokenFile, result, listener, timer,
                 outcome, reqs, saves, loads, crashed>>
  /\ UNCHANGED <<batchVars, mimeVars, readVars>>

(***************************************************************************)
(* getAuthUrlAndWaitForCallback.                                           *)
(***************************************************************************)
\* after `await open(authUrl)` (opened or not): the promise executor creates
\* the server, calls server.listen(3000) and arms the timer.  listen on a
\* port another server of the process holds emits 'error', which has no
\* handler: the process dies.
StartListener(c) ==
  /\ ~crashed /\ pc[c] = "opening"
  /\ pc' = [pc EXCEPT ![c] = "waiting"]
  /\ outcome' = [outcome EXCEPT ![c] = "pending"]
  /\ timer' = [timer EXCEPT ![c] = "armed"]
  /\ listener' = [listener EXCEPT ![c] =
                    IF PortInUse THEN "eaddrinuse" ELSE "listening"]
  /\ crashed' = PortInUse
  /\ UNCHANGED <<env, gmailClient, tokenFile, result, creds, urlOpened, reqs,
                 saves, loads>>
  /\ UNCHANGED live
  /\ UNCHANGED <<batchVars, mimeVars, readVars>>

\* a request reaches the handler of the listening server of attempt c
HttpRequest(c, isCallback, hasCode) ==
  /\ ~crashed
  /\ listener[c] = "listening"
  /\ Len(reqs) < MaxReq
  /\ LET branch == HandlerBranch(isCallback, hasCode)
         req == [att |-> c, callback |-> isCallback, code |-> hasCode,
                 tok |-> NoCreds]
     IN CASE branch = "ignore" ->
               \* not the callback path: the handler does nothing at all
               UNCHANGED <<reqs, listener, outcome, gmailClient, pc, result>>
          [] branch = "exchange" ->
               \* await oauth2Client.getToken(code)
               /\ reqs' = Append(reqs, req @@ [phase |-> "exchanging", res |-> "none"])
               /\ UNCHANGED <<listener, outcome, gmailClient, pc, result>>
          [] branch = "throw" ->
               \* throw new Error('No authorization code received'): catch
               /\ reqs' = Append(reqs, req @@ [phase |-> "failed", res |-> "400"])
               /\ listener' = [listener EXCEPT ![c] = CatchListener(@)]
               /\ Reject(c, NoCodeMsg)
  /\ UNCHANGED <<env, tokenFile, creds, urlOpened, timer, saves, loads, crashed>>
  /\ UNCHANGED live
  /\ UNCHANGED <<batchVars, mimeVars, readVars>>

\* getToken(code) rejects: catch block
ExchangeFailed(r) ==
  /\ ~crashed
  /\ r \in 1..Len(reqs) /\ reqs[r].phase = "exchanging"
  /\ reqs' = [reqs EXCEPT ![r].phase = "failed", ![r].res = "400"]
  /\ listener' = [listener EXCEPT ![reqs[r].att] = CatchListener(@)]
  /\ Reject(reqs[r].att, ExchangeFailedMsg)
  /\ UNCHANGED <<env, tokenFile, creds, urlOpened, timer, saves, loads, crashed>>
  /\ UNCHANGED live
  /\ UNCHANGED <<batchVars, mimeVars, readVars>>

\* getToken(code) resolves: setCredentials(tokens), saveToken(tokens), the
\* success page, server.close(), resolve() -- one synchronous stretch
ExchangeDone(r, tokens) ==
  /\ ~crashed
  /\ r \in 1..Len(reqs) /\ reqs[r].phase = "exchanging"
  /\ creds' = [creds EXCEPT ![reqs[r].att] = tokens]
  /\ tokenFile' = saveToken(tokens)
  /\ saves' = Append(saves, [req |-> r, att |-> reqs[r].att, tok |-> tokens])
  /\ reqs' = [reqs EXCEPT ![r].phase = "done", ![r].res = "200",
                           ![r].tok = tokens]
  /\ listener' = [listener EXCEPT ![reqs[r].att] = serverClose(@)]
  /\ Resolve(reqs[r].att)
  /\ UNCHANGED <<env, urlOpened, timer, loads, crashed>>
  /\ UNCHANGED live
  /\ UNCHANGED <<batchVars, mimeVars, readVars>>

\* mutant: the timeout callback rejects without closing the server
TimeoutListener_NoClose(l) == l

\* what the timeout callback leaves of the listener: server.close()
TimeoutListener(l) == serverClose(l)

\* setTimeout(() => { server.close(); reject(new Error('Authentication timeout')) }, 300000)
TimerFire(c) ==
  /\ ~crashed
  /\ timer[c] = "armed"
  /\ timer' = [timer EXCEPT ![c] = "fired"]
  /\ listener' = [listener EXCEPT ![c] = TimeoutListener(@)]
  /\ Reject(c, TimeoutMsg)
  /\ UNCHANGED <<env, tokenFile, creds, urlOpened, reqs, saves, loads, crashed>>
  /\ UNCHANGED live
  /\ UNCHANGED <<batchVars, mimeVars, readVars>>

(***************************************************************************)
(* The handler of a callback with a code, statement by statement.  After   *)
(* `await oauth2Client.getToken(code)` the handler runs to its end without *)
(* another await: while it runs no other callback of the process does.     *)
(***************************************************************************)
\* a handler is between two of its statements
HandlerRunning ==
  \E r \in 1..Len(reqs) :
    reqs[r].phase \in {"bound", "saved", "responded", "closed"}

\* no handler is between two statements, so another callback may run
Turn == ~crashed /\ ~HandlerRunning

\* the least call: the one followed when a single tool call is modelled
First(c) == \A d \in Calls : c <= d

\* getToken(code) resolved: oauth2Client.setCredentials(tokens)
StepBind(r, tokens) ==
  /\ Turn
  /\ r \in 1..Len(reqs) /\ reqs[r].phase = "exchanging"
  /\ creds' = [creds EXCEPT ![reqs[r].att] = tokens]
  /\ reqs' = [reqs EXCEPT ![r].phase = "bound", ![r].tok = tokens]
  /\ UNCHANGED <<env, gmailClient, tokenFile, pc, result, urlOpened, listener,
                 timer, outcome, saves, loads, crashed, live>>
  /\ UNCHANGED <<batchVars, mimeVars, readVars>>

\* saveToken(tokens)
StepSave(r) ==
  /\ ~crashed
  /\ r \in 1..Len(reqs) /\ reqs[r].phase = "bound"
  /\ tokenFile' = saveToken(reqs[r].tok)
  /\ saves' = Append(saves, [req |-> r, att |-> reqs[r].att, tok |-> reqs[r].tok])
  /\ reqs' = [reqs EXCEPT ![r].phase = "saved"]
  /\ UNCHANGED <<env, gmailClient, pc, result, creds, urlOpened, listener,
                 timer, outcome, loads, crashed, live>>
  /\ UNCHANGED <<batchVars, mimeVars, readVars>>

\* res.writeHead(200, ...); res.end(success page)
StepRespond(r) ==
  /\ ~crashed
  /\ r \in 1..Len(reqs) /\ reqs[r].phase = "saved"
  /\ reqs' = [reqs EXCEPT ![r].phase = "responded", ![r].res = "200"]
  /\ UNCHANGED <<env, gmailClient, tokenFile, pc, result, creds, urlOpened,
                 listener, timer, outcome, saves, loads, crashed, live>>
  /\ UNCHANGED <<batchVars, mimeVars, readVars>>

\* server.close()
StepClose(r) ==
  /\ ~crashed
  /\ r \in 1..Len(reqs) /\ reqs[r].phase = "responded"
  /\ listener' = [listener EXCEPT ![reqs[r].att] = serverClose(@)]
  /\ reqs' = [reqs EXCEPT ![r].phase = "closed"]
  /\ UNCHANGED <<env, gmailClient, tokenFile, pc, result, creds, urlOpened,
                 timer, outcome, saves, loads, crashed, live>>
  /\ UNCHANGED <<batchVars, mimeVars, readVars>>

\* resolve(): the caller resumes
StepResolve(r) ==
  /\ ~crashed
  /\ r \in 1..Len(reqs) /\ reqs[r].phase = "closed"
  /\ reqs' = [reqs EXCEPT ![r].phase = "done"]
  /\ Resolve(reqs[r].att)
  /\ UNCHANGED <<env, tokenFile, creds, urlOpened, listener, timer, saves,
                 loads, crashed, live>>
  /\ UNCHANGED <<batchVars, mimeVars, readVars>>

(***************************************************************************)
(* The batch tools gmail_batch_modify_emails and gmail_batch_delete_emails.*)
(***************************************************************************)
IdSet == {"m1", "m2"}
IdLists == UNION {[1..n -> IdSet] : n \in 0..MaxIds}
BatchSizes == (0 - MaxNeg)..MaxChunk
BatchTools == {"modify", "delete"}

Min2(a, b) == IF a < b THEN a ELSE b
Max2(a, b) == IF a > b THEN a ELSE b

\* how Array.prototype.slice reads an index: negative counts from the end,
\* and the result is clamped to 0..len
SliceIndex(k, len) == IF k < 0 THEN Max2(len + k, 0) ELSE Min2(k, len)

\* the slice taken from the start of the list: messageIds.slice(0, to)
SlicePositions_FromStart(len, from, to) ==
  [k \in 1..Max2(SliceIndex(to, len), 0) |-> k]

\* messageIds.slice(from, to), as the 1-based positions it selects
SlicePositions(len, from, to) ==
  LET s == SliceIndex(from, len)
      e == SliceIndex(to, len)
  IN [k \in 1..Max2(e - s, 0) |-> s + k]

\* the chunk end had the slice taken twice the batch size
ChunkEnd_Double(from, size) == from + size + size

\* end index of the chunk that starts at index from: i + batchSize
ChunkEnd(from, size) == from + size

NoItem == [messageId |-> "", success |-> FALSE, error |-> ""]
NoPromise == [state |-> "none", value |-> NoItem]
PendingPromise == [state |-> "pending", value |-> NoItem]

\* mutant: the per-item function has no try/catch, its promise rejects
ItemSettled_NoCatch(id, threw) ==
  [state |-> IF threw THEN "rejected" ELSE "fulfilled",
   value |-> [messageId |-> id, success |-> TRUE, error |-> ""]]

\* the per-item async function: try { await gateway op; return {messageId,
\* success: true} } catch { return {messageId, success: false, error} }
ItemSettled(id, threw) ==
  [state |-> "fulfilled",
   value |-> [messageId |-> id, success |-> ~threw,
              error |-> IF threw THEN "gateway error" ELSE ""]]

\* mutant: results collected in completion order instead of promise order
ChunkResults_ByCompletion ==
  [k \in 1..Len(batch) |->
     items[completion[Len(completion) - Len(batch) + k]].value]

\* batchResults: what `await Promise.all(batchPromises)` yields, the values
\* in the order of the promises
ChunkResults == [k \in 1..Len(batch) |-> items[batch[k]].value]

\* results.filter(r => r.success).length
Successful(res) == Cardinality({k \in 1..Len(res) : res[k].success})
\* results.filter(r => !r.success).length
FailedCount(res) == Cardinality({k \in 1..Len(res) : ~res[k].success})

NoResponse == [kind |-> "none", op |-> "none", successful |-> 0, failed |-> 0]
\* `Batch modify completed. Successfully modified: ${successful}, Failed: ${failed}`
Completed(op, res) ==
  [kind |-> "completed", op |-> op, successful |-> Successful(res),
   failed |-> FailedCount(res)]
\* `Failed to batch modify emails: ...` / handleError(error, 'batch delete emails')
BatchFailed(op) == [kind |-> "failed", op |-> op, successful |-> 0, failed |-> 0]

\* no batch tool has been invoked
BatchIdle ==
  /\ tool = "none"
  /\ messageIds = <<>>
  /\ batchSize = 0
  /\ bpc = "idle"
  /\ clientOk = FALSE
  /\ i = 0
  /\ batch = <<>>
  /\ items = <<>>
  /\ invoked = <<>>
  /\ opFailed = {}
  /\ completion = <<>>
  /\ results = <<>>
  /\ response = NoResponse

\* a batch tool has been invoked and is at `await initializeGmailClient()`
BatchStart ==
  /\ tool \in BatchTools
  /\ messageIds \in IdLists
  /\ batchSize \in BatchSizes
  /\ bpc = "init"
  /\ clientOk = FALSE
  /\ i = 0
  /\ batch = <<>>
  /\ items = [p \in 1..Len(messageIds) |-> NoPromise]
  /\ invoked = [p \in 1..Len(messageIds) |-> 0]
  /\ opFailed = {}
  /\ completion = <<>>
  /\ results = <<>>
  /\ response = NoResponse

\* initializeGmailClient returned the client
BatchInitOk ==
  /\ bpc = "init"
  /\ clientOk' = TRUE
  /\ bpc' = "loop"
  /\ UNCHANGED <<tool, messageIds, batchSize, i, batch, items, invoked,
                 opFailed, completion, results, response>>
  /\ UNCHANGED <<authVars, mimeVars, readVars>>

\* initializeGmailClient threw: the tool's outer catch answers
BatchInitFailed ==
  /\ bpc = "init"
  /\ response' = BatchFailed(tool)
  /\ bpc' = "done"
  /\ UNCHANGED <<tool, messageIds, batchSize, clientOk, i, batch, items,
                 invoked, opFailed, completion, results>>
  /\ UNCHANGED <<authVars, mimeVars, readVars>>

\* loop test passes: slice the chunk, batch.map starts every per-item
\* function (each runs up to its await of the gateway call)
StartChunk ==
  /\ bpc = "loop"
  /\ i < Len(messageIds)
  /\ i >= 0 - MaxBack
  /\ LET chunk == SlicePositions(Len(messageIds), i, ChunkEnd(i, batchSize))
         inChunk == {chunk[k] : k \in 1..Len(chunk)}
     IN /\ batch' = chunk
        /\ items' = [p \in 1..Len(messageIds) |->
                       IF p \in inChunk THEN PendingPromise ELSE items[p]]
        /\ invoked' = [p \in 1..Len(messageIds) |->
                         IF p \in inChunk THEN invoked[p] + 1 ELSE invoked[p]]
  /\ bpc' = "await"
  /\ UNCHANGED <<tool, messageIds, batchSize, clientOk, i, opFailed,
                 completion, results, response>>
  /\ UNCHANGED <<authVars, mimeVars, readVars>>

\* the gateway call of position p settles (threw: it rejected)
SettleItem(p, threw) ==
  /\ bpc = "await"
  /\ p \in 1..Len(messageIds)
  /\ items[p].state = "pending"
  /\ items' = [items EXCEPT ![p] = ItemSettled(messageIds[p], threw)]
  /\ opFailed' = IF threw THEN opFailed \cup {p} ELSE opFailed
  /\ completion' = Append(completion, p)
  /\ UNCHANGED <<tool, messageIds, batchSize, bpc, clientOk, i, batch,
                 invoked, results, response>>
  /\ UNCHANGED <<authVars, mimeVars, readVars>>

\* `await Promise.all(batchPromises)` settles: it rejects as soon as one
\* promise has rejected (outer catch), else resolves when all are fulfilled:
\* results.push(...batchResults); i += batchSize
ChunkDone ==
  /\ bpc = "await"
  /\ IF \E k \in 1..Len(batch) : items[batch[k]].state = "rejected"
     THEN /\ response' = BatchFailed(tool)
          /\ bpc' = "done"
          /\ UNCHANGED <<results, i>>
     ELSE /\ \A k \in 1..Len(batch) : items[batch[k]].state = "fulfilled"
          /\ results' = results \o ChunkResults
          /\ i' = ChunkEnd(i, batchSize)
          /\ bpc' = "loop"
          /\ UNCHANGED response
  /\ UNCHANGED <<tool, messageIds, batchSize, clientOk, batch, items, invoked,
                 opFailed, completion>>
  /\ UNCHANGED <<authVars, mimeVars, readVars>>

\* loop test fails: count and return the summary text
BatchFinish ==
  /\ bpc = "loop"
  /\ ~(i < Len(messageIds))
  /\ response' = Completed(tool, results)
  /\ bpc' = "done"
  /\ UNCHANGED <<tool, messageIds, batchSize, clientOk, i, batch, items,
                 invoked, opFailed, completion, results>>
  /\ UNCHANGED <<authVars, mimeVars, readVars>>

(***************************************************************************)
(* Strings.  A JavaScript string is a sequence of UTF-16 code units; the   *)
(* literals of createEmailMessage are written out as code units.           *)
(***************************************************************************)
\* 'To: '
ToPrefix == <<84, 111, 58, 32>>
\* 'Subject: '
SubjectPrefix == <<83, 117, 98, 106, 101, 99, 116, 58, 32>>
\* 'Cc: '
CcPrefix == <<67, 99, 58, 32>>
\* 'Bcc: '
BccPrefix == <<66, 99, 99, 58, 32>>
\* 'In-Reply-To: '
InReplyToPrefix == <<73, 110, 45, 82, 101, 112, 108, 121, 45, 84, 111, 58, 32>>
\* 'References: '
ReferencesPrefix == <<82, 101, 102, 101, 114, 101, 110, 99, 101, 115, 58, 32>>
\* 'Content-Type: text/html; charset=utf-8'
HtmlType == <<67, 111, 110, 116, 101, 110, 116, 45, 84, 121, 112, 101, 58, 32, 116, 101, 120, 116, 47, 104, 116, 109, 108, 59, 32, 99, 104, 97, 114, 115, 101, 116, 61, 117, 116, 102, 45, 56>>
\* 'Content-Type: text/plain; charset=utf-8'
PlainType == <<67, 111, 110, 116, 101, 110, 116, 45, 84, 121, 112, 101, 58, 32, 116, 101, 120, 116, 47, 112, 108, 97, 105, 110, 59, 32, 99, 104, 97, 114, 115, 101, 116, 61, 117, 116, 102, 45, 56>>
\* 'Content-Type: multipart/alternative; boundary="'
AlternativeTypePrefix == <<67, 111, 110, 116, 101, 110, 116, 45, 84, 121, 112, 101, 58, 32, 109, 117, 108, 116, 105, 112, 97, 114, 116, 47, 97, 108, 116, 101, 114, 110, 97, 116, 105, 118, 101, 59, 32, 98, 111, 117, 110, 100, 97, 114, 121, 61, 34>>
\* '"'
Quote == <<34>>
\* 'boundary_'
BoundaryPrefix == <<98, 111, 117, 110, 100, 97, 114, 121, 95>>
\* '--'
Dashes == <<45, 45>>
\* ', '
CommaSpace == <<44, 32>>
\* '\n'
NL == <<10>>

\* Array.prototype.join of an array of strings
RECURSIVE Join(_, _)
Join(strs, sep) ==
  IF Len(strs) = 0 THEN <<>>
  ELSE IF Len(strs) = 1 THEN strs[1]
  ELSE strs[1] \o sep \o Join(Tail(strs), sep)

\* the decimal digits of a non-negative number, as `${n}` writes them
RECURSIVE Decimal(_)
Decimal(n) ==
  IF n < 10 THEN <<48 + n>> ELSE Decimal(n \div 10) \o <<48 + (n % 10)>>

\* all strings over an alphabet of at most n code units
RECURSIVE StringsUpTo(_, _)
StringsUpTo(alphabet, n) ==
  IF n = 0 THEN {<<>>}
  ELSE LET shorter == StringsUpTo(alphabet, n - 1)
       IN  shorter \cup {Append(s, ch) : s \in shorter, ch \in alphabet}

\* an optional string argument: undefined, or a string
Undefined == [def |-> FALSE, s |-> <<>>]
Defined(s) == [def |-> TRUE, s |-> s]
\* JavaScript truthiness of an optional string: undefined and '' are falsy
Truthy(o) == o.def /\ o.s # <<>>

\* code units of the surrogate ranges
IsHighSurrogate(u) == u >= 55296 /\ u <= 56319
IsLowSurrogate(u) == u >= 56320 /\ u <= 57343

\* a string without unpaired surrogates
RECURSIVE WellFormed(_)
WellFormed(s) ==
  IF s = <<>> THEN TRUE
  ELSE IF IsHighSurrogate(s[1])
       THEN Len(s) > 1 /\ IsLowSurrogate(s[2]) /\ WellFormed(Tail(Tail(s)))
       ELSE ~IsLowSurrogate(s[1]) /\ WellFormed(Tail(s))

\* the concatenation of the strings f[lo], ..., f[hi]
RECURSIVE Concat(_, _, _)
Concat(f, lo, hi) ==
  IF lo > hi THEN <<>>
  ELSE IF lo = hi THEN f[lo]
  ELSE Concat(f, lo, (lo + hi) \div 2) \o Concat(f, (lo + hi) \div 2 + 1, hi)

\* the UTF-8 bytes the k-th code unit of a string contributes: a surrogate
\* pair is encoded at its high half, an unpaired surrogate as U+FFFD
UnitBytes(s, k) ==
  LET u == s[k] IN
  IF u < 128 THEN <<u>>
  ELSE IF u < 2048 THEN <<192 + (u \div 64), 128 + (u % 64)>>
  ELSE IF IsHighSurrogate(u) /\ k < Len(s) /\ IsLowSurrogate(s[k + 1])
    THEN LET cp == 65536 + (u - 55296) * 1024 + (s[k + 1] - 56320)
         IN  <<240 + (cp \div 262144), 128 + ((cp \div 4096) % 64),
               128 + ((cp \div 64) % 64), 128 + (cp % 64)>>
  ELSE IF IsLowSurrogate(u) /\ k > 1 /\ IsHighSurrogate(s[k - 1]) THEN <<>>
  ELSE IF IsHighSurrogate(u) \/ IsLowSurrogate(u) THEN <<239, 191, 189>>
  ELSE <<224 + (u \div 4096), 128 + ((u \div 64) % 64), 128 + (u % 64)>>

\* Buffer.from(string): the UTF-8 bytes of a string
Utf8(s) == Concat([k \in 1..Len(s) |-> UnitBytes(s, k)], 1, Len(s))

\* a continuation byte 10xxxxxx
IsContinuation(b) == b >= 128 /\ b < 192

\* the length of the sequence a lead byte announces, 0 for any other byte
SequenceLength(b) ==
  IF b >= 192 /\ b < 224 THEN 2
  ELSE IF b >= 224 /\ b < 240 THEN 3
  ELSE IF b >= 240 /\ b < 248 THEN 4
  ELSE 0

\* the byte at j is a lead byte followed by all its continuation bytes
StartsSequence(b, j) ==
  /\ SequenceLength(b[j]) > 0
  /\ j + SequenceLength(b[j]) - 1 <= Len(b)
  /\ \A t \in (j + 1)..(j + SequenceLength(b[j]) - 1) : IsContinuation(b[t])

\* the code units the byte at k decodes to: nothing for a continuation byte
\* of a complete sequence, U+FFFD for a byte that belongs to none
ByteUnits(b, k) ==
  IF b[k] < 128 THEN <<b[k]>>
  ELSE IF StartsSequence(b, k)
    THEN IF SequenceLength(b[k]) = 2
           THEN <<(b[k] - 192) * 64 + (b[k + 1] - 128)>>
         ELSE IF SequenceLength(b[k]) = 3
           THEN <<(b[k] - 224) * 4096 + (b[k + 1] - 128) * 64 + (b[k + 2] - 128)>>
         ELSE LET cp == (b[k] - 240) * 262144 + (b[k + 1] - 128) * 4096
                        + (b[k + 2] - 128) * 64 + (b[k + 3] - 128) - 65536
              IN  <<55296 + (cp \div 1024), 56320 + (cp % 1024)>>
  ELSE IF /\ IsContinuation(b[k])
          /\ \E j \in 1..(k - 1) :
                StartsSequence(b, j) /\ k <= j + SequenceLength(b[j]) - 1
    THEN <<>>
  ELSE <<65533>>

\* buffer.toString('utf8'): the string of a byte sequence
Utf8Decode(b) == Concat([k \in 1..Len(b) |-> ByteUnits(b, k)], 1, Len(b))

\* the character of a 6-bit value in the standard base64 alphabet
Base64Char(k) ==
  IF k < 26 THEN 65 + k
  ELSE IF k < 52 THEN 97 + (k - 26)
  ELSE IF k < 62 THEN 48 + (k - 52)
  ELSE IF k = 62 THEN 43
  ELSE 47

\* the k-th byte of a sequence, 0 past its end
ByteAt(b, k) == IF k <= Len(b) THEN b[k] ELSE 0

\* buffer.toString('base64'): standard base64 with '=' padding; three bytes
\* give four characters
Base64(b) ==
  [k \in 1..(4 * ((Len(b) + 2) \div 3)) |->
     LET g == 3 * ((k - 1) \div 4)
         b1 == ByteAt(b, g + 1)
         b2 == ByteAt(b, g + 2)
         b3 == ByteAt(b, g + 3)
     IN  CASE (k - 1) % 4 = 0 -> Base64Char(b1 \div 4)
           [] (k - 1) % 4 = 1 -> Base64Char((b1 % 4) * 16 + (b2 \div 16))
           [] (k - 1) % 4 = 2 ->
                IF g + 2 > Len(b) THEN 61
                ELSE Base64Char((b2 % 16) * 4 + (b3 \div 64))
           [] OTHER ->
                IF g + 3 > Len(b) THEN 61 ELSE Base64Char(b3 % 64)]

\* .replace(/\+/g, '-').replace(/\//g, '_') without the .replace(/=/g, '')
UrlSafe_KeepPadding(s) ==
  [k \in 1..Len(s) |-> IF s[k] = 43 THEN 45 ELSE IF s[k] = 47 THEN 95 ELSE s[k]]

\* .replace(/\+/g, '-').replace(/\//g, '_').replace(/=/g, '')
UrlSafe(s) ==
  LET kept == SelectSeq(s, LAMBDA ch : ch # 61)
  IN  [k \in 1..Len(kept) |->
         IF kept[k] = 43 THEN 45 ELSE IF kept[k] = 47 THEN 95 ELSE kept[k]]

\* the 6-bit value of a base64 character, of either alphabet
Base64Value(ch) ==
  IF ch >= 65 /\ ch <= 90 THEN ch - 65
  ELSE IF ch >= 97 /\ ch <= 122 THEN ch - 97 + 26
  ELSE IF ch >= 48 /\ ch <= 57 THEN ch - 48 + 52
  ELSE IF ch = 43 \/ ch = 45 THEN 62
  ELSE 63

\* Buffer.from(data, 'base64'): the bytes of a base64 string; both
\* alphabets are accepted and padding is optional; four characters give
\* three bytes
Base64Decode(s) ==
  LET d == SelectSeq(s, LAMBDA ch : ch # 61) IN
  [k \in 1..((Len(d) * 3) \div 4) |->
     LET g == 4 * ((k - 1) \div 3)
         v1 == Base64Value(d[g + 1])
         v2 == Base64Value(d[g + 2])
         v3 == IF g + 3 <= Len(d) THEN Base64Value(d[g + 3]) ELSE 0
         v4 == IF g + 4 <= Len(d) THEN Base64Value(d[g + 4]) ELSE 0
     IN  CASE (k - 1) % 3 = 0 -> v1 * 4 + (v2 \div 16)
           [] (k - 1) % 3 = 1 -> (v2 % 16) * 16 + (v3 \div 4)
           [] OTHER -> (v3 % 4) * 64 + v4]

(***************************************************************************)
(* createEmailMessage, called by gmail_send_email and gmail_draft_email.   *)
(***************************************************************************)
\* the values of the mimeType enum of both tools
MimeTypes == {"text/plain", "text/html", "multipart/alternative"}

\* arguments of the tools that reach createEmailMessage
ToLists == {<< <<97>> >>, << <<97>>, <<98, 99>> >>}
Subjects == {<<62, 62, 62>>, <<83, 10, 10, 88>>}
BodyChars == {63, 10, 55296}
Bodies == StringsUpTo(BodyChars, MaxStr)
HtmlBodies == {Undefined, Defined(<<>>), Defined(<<60>>)}
CopyLists == {<<>>, << <<99>> >>}
OptionalIds == {Undefined, Defined(<<105>>)}
\* values Date.now() may return
Clocks == 0..MaxClock

MailArgs ==
  [to : ToLists, subject : Subjects, body : Bodies, cc : CopyLists,
   bcc : CopyLists, mimeType : MimeTypes, htmlBody : HtmlBodies,
   inReplyTo : OptionalIds, threadId : OptionalIds]

\* the branch taken had the multipart/alternative test come first, on
\* mimeType alone
ContentBranch_AlternativeFirst(mimeType, htmlBody) ==
  IF mimeType = "multipart/alternative"
  THEN "alternative"
  ELSE IF mimeType = "text/html" \/ Truthy(htmlBody) THEN "html" ELSE "plain"

\* the if / else if / else that chooses the content type, with the tests in
\* source order
ContentBranch(mimeType, htmlBody) ==
  IF mimeType = "text/html" \/ Truthy(htmlBody)
  THEN "html"
  ELSE IF mimeType = "multipart/alternative" /\ Truthy(htmlBody)
       THEN "alternative"
       ELSE "plain"

\* `boundary_${Date.now()}`
Boundary(now) == BoundaryPrefix \o Decimal(now)

\* htmlBody || body
HtmlOrBody(m) == IF Truthy(m.htmlBody) THEN m.htmlBody.s ELSE m.body

\* the headers array when the email is joined
MessageHeaders(m, now) ==
  <<ToPrefix \o Join(m.to, CommaSpace), SubjectPrefix \o m.subject>>
  \o (IF Len(m.cc) > 0 THEN <<CcPrefix \o Join(m.cc, CommaSpace)>> ELSE <<>>)
  \o (IF Len(m.bcc) > 0 THEN <<BccPrefix \o Join(m.bcc, CommaSpace)>> ELSE <<>>)
  \o (IF Truthy(m.inReplyTo) THEN <<InReplyToPrefix \o m.inReplyTo.s>> ELSE <<>>)
  \o (IF Truthy(m.threadId) THEN <<ReferencesPrefix \o m.threadId.s>> ELSE <<>>)
  \o (CASE ContentBranch(m.mimeType, m.htmlBody) = "html" -> <<HtmlType>>
        [] ContentBranch(m.mimeType, m.htmlBody) = "alternative" ->
             <<AlternativeTypePrefix \o Boundary(now) \o Quote>>
        [] OTHER -> <<PlainType>>)

\* emailContent
MessageContent(m, now) ==
  CASE ContentBranch(m.mimeType, m.htmlBody) = "html" -> HtmlOrBody(m)
    [] ContentBranch(m.mimeType, m.htmlBody) = "alternative" ->
         Join(<<Dashes \o Boundary(now), PlainType, <<>>, m.body, <<>>,
                Dashes \o Boundary(now), HtmlType, <<>>, m.htmlBody.s, <<>>,
                Dashes \o Boundary(now) \o Dashes>>, NL)
    [] OTHER -> m.body

\* headers.join('\n') + '\n\n' + emailContent
EmailText(m, now) ==
  Join(MessageHeaders(m, now), NL) \o NL \o NL \o MessageContent(m, now)

\* the value createEmailMessage returns
createEmailMessage(m, now) == UrlSafe(Base64(Utf8(EmailText(m, now))))

\* a send or draft tool call whose client is ready, before the message is built
MimeStart ==
  /\ mail \in MailArgs
  /\ mpc = "args"
  /\ email = <<>>
  /\ raw = <<>>

\* no send or draft tool call is followed
MimeIdle ==
  /\ mail = [to |-> <<>>, subject |-> <<>>, body |-> <<>>, cc |-> <<>>,
             bcc |-> <<>>, mimeType |-> "text/plain", htmlBody |-> Undefined,
             inReplyTo |-> Undefined, threadId |-> Undefined]
  /\ mpc = "none"
  /\ email = <<>>
  /\ raw = <<>>

\* const raw = createEmailMessage(to, subject, body, {...})
BuildMessage(now) ==
  /\ mpc = "args"
  /\ email' = EmailText(mail, now)
  /\ raw' = createEmailMessage(mail, now)
  /\ mpc' = "built"
  /\ UNCHANGED mail
  /\ UNCHANGED <<authVars, batchVars, readVars>>

(***************************************************************************)
(* extractEmailContent and the tools that show its result:                 *)
(* gmail_read_email, gmail_get_draft, gmail_get_thread.                    *)
(***************************************************************************)
\* 'attachment-'
AttachmentPrefix == <<97, 116, 116, 97, 99, 104, 109, 101, 110, 116, 45>>
\* '...'
Ellipsis == <<46, 46, 46>>
\* the length gmail_get_thread cuts a message body to
PreviewLimit == 200

\* the kinds of part a document is made of: a container without a body, a
\* text/plain or text/html part with data, an attachment
PartKinds == {"container", "plain", "html", "attachment"}

\* a document in the order it is written: for each part its nesting depth
\* and its kind; the first part is the root, a part lies at most one level
\* below the part before it
RECURSIVE DocumentsOfLength(_)
DocumentsOfLength(n) ==
  IF n = 1 THEN {<<[depth |-> 0, kind |-> kd]>> : kd \in PartKinds}
  ELSE UNION {{Append(d, [depth |-> dep, kind |-> kd]) :
                 dep \in 1..(d[n - 1].depth + 1), kd \in PartKinds}
              : d \in DocumentsOfLength(n - 1)}

Documents == UNION {DocumentsOfLength(n) : n \in 1..MaxParts}

\* the decoded content of the k-th part of a document, and its data field
PartText(k, kind) == IF kind = "plain" THEN <<112, 48 + k>> ELSE <<60, 48 + k, 233>>
PartData(k, kind) == UrlSafe(Base64(Utf8(PartText(k, kind))))
\* the attachment reference of the k-th part
PartAttachmentId(k) == <<65, 48 + k>>
\* the attachments at odd places carry a filename, a type and a size, the
\* others none of them
IsNamed(k) == k % 2 = 1

\* the last part of the subtree of part k
SpanEnd(d, k) ==
  LET after == {j \in (k + 1)..Len(d) : d[j].depth <= d[k].depth}
  IN  IF after = {} THEN Len(d)
      ELSE (CHOOSE j \in after : \A j2 \in after : j <= j2) - 1

\* the children of part k, in order
ChildIndexes(d, k) ==
  SelectSeq([j \in 1..(SpanEnd(d, k) - k) |-> k + j],
            LAMBDA j : d[j].depth = d[k].depth + 1)

\* the payload the gateway returns for a document: part k with its parts
RECURSIVE PartAt(_, _)
PartAt(d, k) ==
  LET kids == ChildIndexes(d, k) IN
  [n |-> k,
   mimeType |-> CASE d[k].kind = "container" -> "multipart/mixed"
                  [] d[k].kind = "plain" -> "text/plain"
                  [] d[k].kind = "html" -> "text/html"
                  [] d[k].kind = "attachment" /\ IsNamed(k) -> "application/pdf"
                  [] OTHER -> "",
   filename |-> IF d[k].kind = "attachment" /\ IsNamed(k)
                THEN <<102, 48 + k>> ELSE <<>>,
   body |-> [data |-> IF d[k].kind \in {"plain", "html"}
                      THEN PartData(k, d[k].kind) ELSE <<>>,
             attachmentId |-> IF d[k].kind = "attachment"
                              THEN PartAttachmentId(k) ELSE <<>>,
             size |-> IF d[k].kind = "attachment" /\ IsNamed(k) THEN k ELSE 0],
   parts |-> [c \in 1..Len(kids) |-> PartAt(d, kids[c])]]

\* attachments.unshift(descriptor)
Push_Front(list, x) == <<x>> \o list
\* attachments.push(descriptor)
Push(list, x) == Append(list, x)

\* the descriptor pushed for a part with body.attachmentId
Descriptor(part) ==
  [id |-> part.body.attachmentId,
   filename |-> IF part.filename # <<>> THEN part.filename
                ELSE AttachmentPrefix \o part.body.attachmentId,
   mimeType |-> IF part.mimeType # "" THEN part.mimeType
                ELSE "application/octet-stream",
   size |-> part.body.size]

\* nothing extracted yet; `visited` records the parts processPayload was
\* called on
NoContent == [text |-> <<>>, html |-> <<>>, attachments |-> <<>>, visited |-> <<>>]

\* processPayload(part) on the accumulated content, and the forEach over
\* part.parts from the k-th child on
RECURSIVE processPayload(_, _)
RECURSIVE forEachPart(_, _, _)
processPayload(part, acc) ==
  LET content == IF part.body.data # <<>>
                 THEN Utf8Decode(Base64Decode(part.body.data)) ELSE <<>>
      a1 == [acc EXCEPT
               !.visited = Append(@, part.n),
               !.text = IF part.body.data # <<>> /\ part.mimeType = "text/plain"
                        THEN @ \o content ELSE @,
               !.html = IF part.body.data # <<>> /\ part.mimeType = "text/html"
                        THEN @ \o content ELSE @]
      a2 == IF part.body.attachmentId # <<>>
            THEN [a1 EXCEPT !.attachments = Push(@, Descriptor(part))]
            ELSE a1
  IN  forEachPart(part.parts, 1, a2)

forEachPart(parts, k, acc) ==
  IF k > Len(parts) THEN acc
  ELSE forEachPart(parts, k + 1, processPayload(parts[k], acc))

\* extractEmailContent(payload)
extractEmailContent(payload) == processPayload(payload, NoContent)

\* text || html || ''
TextOrHtml(x) == IF x.text # <<>> THEN x.text ELSE x.html

\* String.prototype.substring(0, n)
Substring0(s, n) == SubSeq(s, 1, IF Len(s) < n THEN Len(s) ELSE n)

\* what each tool shows of the extracted content: the body, and whether the
\* '[HTML content converted to text]' note is written
Shown(tool_, x) ==
  CASE tool_ = "read" ->
         [body |-> TextOrHtml(x), note |-> x.text = <<>> /\ x.html # <<>>]
    [] tool_ = "draft" ->
         [body |-> TextOrHtml(x), note |-> FALSE]
    [] OTHER ->
         [body |-> Substring0(TextOrHtml(x), PreviewLimit)
                   \o (IF Len(x.text) > PreviewLimit THEN Ellipsis ELSE <<>>),
          note |-> FALSE]

Readers == {"read", "draft", "thread"}
NoShown == [body |-> <<>>, note |-> FALSE]

\* a read tool call whose client is ready, awaiting the gateway
ReadStart ==
  /\ reader \in Readers
  /\ doc \in Documents
  /\ rpc = "fetching"
  /\ extracted = NoContent
  /\ shown = NoShown
  /\ readFailed = FALSE

\* no read tool call is followed
ReadIdle ==
  /\ reader = "none"
  /\ doc = <<>>
  /\ rpc = "none"
  /\ extracted = NoContent
  /\ shown = NoShown
  /\ readFailed = FALSE

\* the gateway returned the message (draft, thread): the content is
\* extracted and the text of the response is written
ReadReturned ==
  /\ rpc = "fetching"
  /\ extracted' = extractEmailContent(PartAt(doc, 1))
  /\ shown' = Shown(reader, extracted')
  /\ rpc' = "done"
  /\ UNCHANGED <<reader, doc, readFailed>>
  /\ UNCHANGED <<authVars, batchVars, mimeVars>>

\* the gateway call threw: the catch returns 'Failed to ...'
ReadThrew ==
  /\ rpc = "fetching"
  /\ readFailed' = TRUE
  /\ rpc' = "done"
  /\ UNCHANGED <<reader, doc, extracted, shown>>
  /\ UNCHANGED <<authVars, batchVars, mimeVars>>

(***************************************************************************)
(* Specifications.                                                         *)
(***************************************************************************)
InitAuth == AuthStart /\ BatchIdle /\ MimeIdle /\ ReadIdle

NextAuth ==
  \/ \E c \in Calls : CallCached(c)
  \/ \E c \in Calls : CallService(c)
  \/ \E c \in Calls : CallConfigError(c)
  \/ \E c \in Calls : CallLiveness(c)
  \/ \E c \in Calls : CallInteractive(c)
  \/ \E c \in Calls : LivenessValid(c)
  \/ \E c \in Calls : LivenessRefreshed(c)
  \/ \E c \in Calls : LivenessFailed(c)
  \/ \E c \in Calls : StartListener(c)
  \/ \E c \in Calls, isCallback \in BOOLEAN, hasCode \in BOOLEAN :
        HttpRequest(c, isCallback, hasCode)
  \/ \E r \in 1..MaxReq : ExchangeFailed(r)
  \/ \E r \in 1..MaxReq : \E tokens \in ExchangeTokens(r) : ExchangeDone(r, tokens)
  \/ \E c \in Calls : TimerFire(c)

SpecAuth == InitAuth /\ [][NextAuth]_vars

\* a batch tool call of a process whose authentication state is not followed
AuthQuiet ==
  /\ env = [id |-> TRUE, secret |-> TRUE, svc |-> FALSE]
  /\ gmailClient = NullClient
  /\ tokenFile = NoFile
  /\ pc = [c \in Calls |-> "idle"]
  /\ result = [c \in Calls |-> NoResult]
  /\ creds = [c \in Calls |-> NoCreds]
  /\ urlOpened = [c \in Calls |-> FALSE]
  /\ listener = [c \in Calls |-> "none"]
  /\ timer = [c \in Calls |-> "none"]
  /\ outcome = [c \in Calls |-> "none"]
  /\ reqs = <<>>
  /\ saves = <<>>
  /\ loads = 0
  /\ crashed = FALSE
  /\ live = [c \in Calls |-> "none"]

InitBatch == AuthQuiet /\ BatchStart /\ MimeIdle /\ ReadIdle

NextBatch ==
  \/ BatchInitOk
  \/ BatchInitFailed
  \/ StartChunk
  \/ \E p \in 1..MaxIds, threw \in BOOLEAN : SettleItem(p, threw)
  \/ ChunkDone
  \/ BatchFinish

SpecBatch == InitBatch /\ [][NextBatch]_vars

\* the handler of a batch tool is resumed whenever it can take a step: the
\* event loop runs its continuation, and every gateway call settles
FairSpecBatch == SpecBatch /\ WF_vars(NextBatch)

\* one tool call that authenticates, with the handler of a callback that
\* carries a code followed statement by statement
NextCallback ==
  \/ \E c \in Calls : First(c) /\ Turn /\ CallLiveness(c)
  \/ \E c \in Calls : First(c) /\ Turn /\ CallInteractive(c)
  \/ \E c \in Calls : Turn /\ LivenessValid(c)
  \/ \E c \in Calls : Turn /\ LivenessRefreshed(c)
  \/ \E c \in Calls : Turn /\ LivenessFailed(c)
  \/ \E c \in Calls : Turn /\ StartListener(c)
  \/ \E c \in Calls, isCallback \in BOOLEAN, hasCode \in BOOLEAN :
        Turn /\ HttpRequest(c, isCallback, hasCode)
  \/ \E r \in 1..MaxReq : Turn /\ ExchangeFailed(r)
  \/ \E r \in 1..MaxReq : \E tokens \in ExchangeTokens(r) : StepBind(r, tokens)
  \/ \E r \in 1..MaxReq : StepSave(r)
  \/ \E r \in 1..MaxReq : StepRespond(r)
  \/ \E r \in 1..MaxReq : StepClose(r)
  \/ \E r \in 1..MaxReq : StepResolve(r)
  \/ \E c \in Calls : Turn /\ TimerFire(c)

SpecCallback == InitAuth /\ [][NextCallback]_vars

\* a send or draft tool call, from its arguments to the built message
InitMime == AuthQuiet /\ BatchIdle /\ MimeStart /\ ReadIdle

NextMime == \E now \in Clocks : BuildMessage(now)

SpecMime == InitMime /\ [][NextMime]_vars

\* a read tool call, from the gateway call to the response
InitRead == AuthQuiet /\ BatchIdle /\ MimeIdle /\ ReadStart

NextRead ==
  \/ ReadReturned
  \/ ReadThrew

SpecRead == InitRead /\ [][NextRead]_vars


\* the event loop runs every ready callback: an armed timer fires
FairSpecAuth ==
  /\ SpecAuth
  /\ \A c \in Calls : WF_vars(TimerFire(c))

(***************************************************************************)
(* Properties.                                                             *)
(***************************************************************************)
\* the last callback request received
LastReq == reqs[Len(reqs)]

\* C1: at most one interactive authorization is in flight per process: while
\* one attempt awaits its callback, no other attempt has started a listener
\* on port 3000 (a second caller waits or is rejected instead).
C1_SingleAuthorizationInFlight ==
  \A c, d \in Calls :
    c # d => ~(/\ outcome[c] = "pending"
               /\ outcome[d] = "pending"
               /\ listener[d] \in {"listening", "eaddrinuse"})

\* C2: a request to the callback path without a code, received while the
\* attempt is awaiting its callback, is answered with the failure page (400),
\* stops the listener, makes the attempt fail with the 'No authorization
\* code received' error, and writes nothing to the credential file.
C2_NoCodeCallbackFails ==
  [][\A c \in Calls :
       (/\ Len(reqs') = Len(reqs) + 1
        /\ reqs'[Len(reqs')].att = c
        /\ reqs'[Len(reqs')].callback
        /\ ~reqs'[Len(reqs')].code)
       => /\ reqs'[Len(reqs')].res = "400"
          /\ listener'[c] = "closed"
          /\ outcome'[c] = "rejected"
          /\ pc'[c] = "done"
          /\ result'[c] = Failed(NoCodeMsg)
          /\ gmailClient' = gmailClient
          /\ tokenFile' = tokenFile
          /\ saves' = saves]_vars

\* C2 witness: an error-only callback was handled and the attempt failed
\* with no credential file on disk
C2_Witness ==
  /\ reqs # <<>>
  /\ LastReq.callback /\ ~LastReq.code /\ LastReq.res = "400"
  /\ result[LastReq.att] = Failed(NoCodeMsg)
  /\ ~tokenFile.exists

\* C3: an attempt whose delivered outcome is a failure has performed no
\* saveToken write, at any time.
C3_NoWriteOnFailure ==
  \A c \in Calls :
    outcome[c] = "rejected" =>
      \A k \in 1..Len(saves) : saves[k].att # c

\* C4: whenever an attempt has ended (resolved or rejected), the listener it
\* started is closed.
C4_ListenerTornDown ==
  \A c \in Calls :
    outcome[c] \in {"resolved", "rejected"} => listener[c] = "closed"

\* C4 witness: one attempt ended by the timeout and another by success
C4_Witness ==
  \E c, d \in Calls :
    /\ result[c] = Failed(TimeoutMsg) /\ listener[c] = "closed"
    /\ outcome[d] = "resolved" /\ listener[d] = "closed"

\* C5: every attempt that awaits its callback eventually ends.
C5_AttemptEnds ==
  \A c \in Calls : (outcome[c] = "pending") ~> (outcome[c] # "pending")

\* C6: when the liveness check of a loaded record succeeds, the stored
\* record equals the token set the returned client is bound to.
C6_RefreshPersisted ==
  [][\A c \in Calls :
       (pc[c] = "liveness" /\ pc'[c] = "done")
       => tokenFile'.tok = creds'[c]]_vars

\* C7: with client id or client secret missing and no service account, no
\* call reads the credential file, starts a listener, opens the browser or
\* writes; the shared client stays unset and every finished call failed with
\* the configuration error naming both settings.
C7_ConfigurationError ==
  ((~env.id \/ ~env.secret) /\ ~env.svc) =>
    /\ loads = 0
    /\ saves = <<>>
    /\ gmailClient = NullClient
    /\ \A c \in Calls :
         /\ listener[c] = "none" /\ ~urlOpened[c] /\ outcome[c] = "none"
         /\ pc[c] \in {"idle", "done"}
         /\ pc[c] = "done" =>
              /\ result[c] = Failed(MissingCredentialsMsg)
              /\ SettingsNamed(result[c].msg) =
                   {"GOOGLE_CLIENT_ID", "GOOGLE_CLIENT_SECRET"}

\* C7 witness: only the secret is missing, a credential file exists, and
\* every call has failed
C7_Witness ==
  /\ env.id /\ ~env.secret /\ ~env.svc
  /\ tokenFile.exists /\ tokenFile.parses
  /\ \A c \in Calls : result[c].status = "error"

\* C8: every record passed to saveToken has an access_token, and every
\* client returned as authenticated holds credentials with an access_token.
C8_AccessTokenRequired ==
  /\ \A k \in 1..Len(saves) : saves[k].tok.at # NoAccess
  /\ \A c \in Calls :
       (result[c].status = "ok" /\ result[c].client.kind = "oauth2")
       => creds[result[c].client.of].at # NoAccess

\* number of ids in the current call's list
N == Len(messageIds)

\* C9: a batch call with chunk size >= 1 that got its client ends with
\* exactly N results, the k-th carrying the k-th input id, and reports
\* successes and failures that add up to N.
C9_ResultsInInputOrder ==
  (bpc = "done" /\ clientOk /\ batchSize >= 1) =>
    /\ response.kind = "completed"
    /\ response.op = tool
    /\ Len(results) = N
    /\ \A k \in 1..N : results[k].messageId = messageIds[k]
    /\ response.successful + response.failed = N

\* C9 witness: N = C + 1, two different ids, and the operations of the first
\* chunk completed in the reverse of the input order
C9_Witness ==
  /\ bpc = "done" /\ clientOk /\ batchSize >= 2
  /\ N = batchSize + 1
  /\ messageIds[1] # messageIds[2]
  /\ completion[1] = 2 /\ completion[2] = 1

\* C10: in a batch call with chunk size >= 1 that got its client, the
\* operation is invoked for every position whatever failed before, and the
\* reported failures are exactly the positions whose operation failed.
C10_FailureIsolation ==
  /\ (bpc = "done" /\ clientOk /\ batchSize >= 1) =>
       /\ response.kind = "completed"
       /\ \A p \in 1..N : invoked[p] >= 1
       /\ response.failed = Cardinality(opFailed)
       /\ response.successful = N - Cardinality(opFailed)
  /\ (bpc = "await" /\ batchSize >= 1) =>
       \A k \in 1..Len(batch) : invoked[batch[k]] >= 1

\* C10 witness: the first operation of the first chunk failed, and the call
\* went on through a later chunk to report failures and successes
C10_Witness ==
  /\ bpc = "done" /\ clientOk /\ batchSize >= 2
  /\ N > batchSize
  /\ 1 \in opFailed
  /\ response.failed >= 1 /\ response.successful >= 1
  /\ completion[1] = 1


\* the position of the first blank line of a text (two line feeds in a row),
\* 0 if it has none
BlankLineAt(s) ==
  LET at == {k \in 1..(Len(s) - 1) : s[k] = 10 /\ s[k + 1] = 10}
  IN  IF at = {} THEN 0 ELSE CHOOSE k \in at : \A k2 \in at : k <= k2

\* the content of a message text: what follows its first blank line
AfterBlankLine(s) ==
  IF BlankLineAt(s) = 0 THEN <<>> ELSE SubSeq(s, BlankLineAt(s) + 2, Len(s))

\* the lines of the header block of a message text
HeaderLines(s) ==
  LET h == SubSeq(s, 1, IF BlankLineAt(s) = 0 THEN Len(s) ELSE BlankLineAt(s) - 1)
      breaks == {k \in 1..Len(h) : h[k] = 10}
      starts == {1} \cup {k + 1 : k \in breaks}
  IN  {SubSeq(h, a, (CHOOSE e \in (breaks \cup {Len(h) + 1}) :
                       e >= a /\ \A e2 \in (breaks \cup {Len(h) + 1}) :
                                    e2 >= a => e <= e2) - 1)
       : a \in starts}

StartsWith(s, t) == Len(s) >= Len(t) /\ SubSeq(s, 1, Len(t)) = t
EndsWith(s, t) == Len(s) >= Len(t) /\ SubSeq(s, Len(s) - Len(t) + 1, Len(s)) = t
Occurs(s, t) == \E k \in 1..(Len(s) - Len(t) + 1) : SubSeq(s, k, k + Len(t) - 1) = t

\* a header field value without a line break
NoLineBreak(s) == \A k \in 1..Len(s) : s[k] # 10 /\ s[k] # 13
HeaderFieldsOnOneLine(m) ==
  /\ \A k \in 1..Len(m.to) : NoLineBreak(m.to[k])
  /\ \A k \in 1..Len(m.cc) : NoLineBreak(m.cc[k])
  /\ \A k \in 1..Len(m.bcc) : NoLineBreak(m.bcc[k])
  /\ NoLineBreak(m.subject)
  /\ NoLineBreak(m.inReplyTo.s)
  /\ NoLineBreak(m.threadId.s)

\* the standard base64 string of a payload: '-' and '_' restored to '+' and
\* '/', and '=' padding restored to a multiple of four characters
StandardBase64(p) ==
  [k \in 1..(4 * ((Len(p) + 3) \div 4)) |->
     IF k > Len(p) THEN 61
     ELSE IF p[k] = 45 THEN 43 ELSE IF p[k] = 95 THEN 47 ELSE p[k]]

\* the characters of a string
Chars(s) == {s[k] : k \in 1..Len(s)}

\* C11: a message built with content mode multipart/alternative and an html
\* body declares Content-Type multipart/alternative with a boundary token,
\* and its content is exactly two sub-parts, text/plain with the plain body
\* then text/html with the html body, each preceded by --boundary, followed
\* by the closing --boundary--.
C11_AlternativeIsMultipart ==
  (mpc = "built" /\ mail.mimeType = "multipart/alternative"
     /\ Truthy(mail.htmlBody))
  => \E now \in Clocks :
       /\ (AlternativeTypePrefix \o Boundary(now) \o Quote) \in HeaderLines(email)
       /\ AfterBlankLine(email) =
            Join(<<Dashes \o Boundary(now), PlainType, <<>>, mail.body, <<>>,
                   Dashes \o Boundary(now), HtmlType, <<>>, mail.htmlBody.s,
                   <<>>, Dashes \o Boundary(now) \o Dashes>>, NL)

C13_PlainRoundTrip_AsStated ==
  (mpc = "built" /\ mail.mimeType = "text/plain" /\ HeaderFieldsOnOneLine(mail))
  => /\ AfterBlankLine(Utf8Decode(Base64Decode(StandardBase64(raw)))) = mail.body
     /\ Chars(raw) \cap {43, 47, 61} = {}

\* C13: for every message with content mode plain, no (or an empty) html
\* body, header fields without line breaks and a plain body without unpaired
\* surrogates, reversing the URL-safe step of the payload gives the standard
\* base64 of the email text, decoding it and taking what follows the first
\* blank line gives exactly the plain body, and the payload holds no '+',
\* '/' or '='.
C13_PlainRoundTrip ==
  (mpc = "built" /\ mail.mimeType = "text/plain" /\ HeaderFieldsOnOneLine(mail)
     /\ ~Truthy(mail.htmlBody) /\ WellFormed(mail.body))
  => /\ StandardBase64(raw) = Base64(Utf8(email))
     /\ AfterBlankLine(Utf8Decode(Base64Decode(StandardBase64(raw)))) = mail.body
     /\ Chars(raw) \cap {43, 47, 61} = {}

\* C13 witness: a plain message was built whose standard base64 holds '+',
\* '/' and '=' padding
C13_Witness ==
  /\ mpc = "built"
  /\ mail.mimeType = "text/plain"
  /\ HeaderFieldsOnOneLine(mail)
  /\ ~Truthy(mail.htmlBody)
  /\ WellFormed(mail.body)
  /\ mail.body # <<>>
  /\ {43, 47, 61} \subseteq Chars(Base64(Utf8(email)))

\* what a document holds, read off in the order it is written: the texts of
\* its parts of one kind, and the descriptors of its attachment parts
TextsOfKind(d, kind) ==
  Concat([k \in 1..Len(d) |->
            IF d[k].kind = kind THEN PartText(k, kind) ELSE <<>>], 1, Len(d))
DescriptorsInOrder(d) ==
  Concat([k \in 1..Len(d) |->
            CASE d[k].kind = "attachment" /\ IsNamed(k) ->
                   <<[id |-> PartAttachmentId(k), filename |-> <<102, 48 + k>>,
                      mimeType |-> "application/pdf", size |-> k]>>
              [] d[k].kind = "attachment" /\ ~IsNamed(k) ->
                   <<[id |-> PartAttachmentId(k),
                      filename |-> AttachmentPrefix \o PartAttachmentId(k),
                      mimeType |-> "application/octet-stream", size |-> 0]>>
              [] OTHER -> <<>>], 1, Len(d))

\* C14: for every part tree, extractEmailContent visits each part exactly
\* once, in document order, and returns one descriptor per part with an
\* attachment reference, in document order, the text/plain bodies
\* concatenated in document order as text and the text/html bodies
\* concatenated in document order as html.
C14_ExtractionInDocumentOrder ==
  (rpc = "done" /\ ~readFailed)
  => /\ extracted.visited = [k \in 1..Len(doc) |-> k]
     /\ extracted.attachments = DescriptorsInOrder(doc)
     /\ extracted.text = TextsOfKind(doc, "plain")
     /\ extracted.html = TextsOfKind(doc, "html")

\* C14 witness: a message was extracted that has an attachment nested at
\* depth 3, another attachment, a text/plain part and a text/html part
C14_Witness ==
  /\ rpc = "done"
  /\ ~readFailed
  /\ \E k \in 1..Len(doc) : doc[k].depth >= 3 /\ doc[k].kind = "attachment"
  /\ Len(extracted.attachments) >= 2
  /\ extracted.text # <<>>
  /\ extracted.html # <<>>

\* C15: every read tool (read email, get draft, get thread) shows the text
\* if it is not empty, otherwise the html, otherwise the empty string, and
\* notes a substitution exactly when the html was shown because the text was
\* empty.
C15_SubstitutionFlagged ==
  (rpc = "done" /\ ~readFailed)
  => /\ shown.body = (IF extracted.text # <<>> THEN extracted.text
                      ELSE IF extracted.html # <<>> THEN extracted.html
                      ELSE <<>>)
     /\ shown.note = (extracted.text = <<>> /\ extracted.html # <<>>)


\* C16: every failure of a tool invocation becomes a text result for that
\* invocation: in particular a listener that fails to start leaves the
\* process running and its call answered with an error result.
C16_ListenerFailureAnswered ==
  \A c \in Calls :
    listener[c] = "eaddrinuse" => (~crashed /\ result[c].status = "error")

\* C17: on a callback that carries a code the handler binds the client to
\* the exchanged tokens, persists them, sends the success page, stops the
\* listener and only then resumes the caller: at the step that resumes the
\* caller with success the credential file already holds the token set the
\* returned client is bound to, the request is answered with 200 and the
\* listener is stopped; and the statements run in that order.
C17_PersistedBeforeResume ==
  [][/\ \A c \in Calls :
          (outcome[c] = "pending" /\ outcome'[c] = "resolved")
          => /\ tokenFile = [exists |-> TRUE, parses |-> TRUE, tok |-> creds[c]]
             /\ tokenFile' = tokenFile
             /\ creds'[c] = creds[c]
             /\ result'[c] = Returned(OAuthClient(c))
             /\ listener[c] = "closed"
             /\ \E r \in 1..Len(reqs) :
                  /\ reqs[r].att = c /\ reqs[r].phase = "closed"
                  /\ reqs[r].res = "200" /\ reqs[r].tok = creds[c]
     /\ \A r \in 1..Len(reqs) :
          reqs'[r].phase # reqs[r].phase
          => <<reqs[r].phase, reqs'[r].phase>> \in
               {<<"exchanging", "bound">>, <<"exchanging", "failed">>,
                <<"bound", "saved">>, <<"saved", "responded">>,
                <<"responded", "closed">>, <<"closed", "done">>}]_vars

\* C17 witness: the caller was resumed with success by a callback that
\* carried a code, and the file holds the tokens its client is bound to
C17_Witness ==
  \E c \in Calls :
    /\ outcome[c] = "resolved"
    /\ result[c] = Returned(OAuthClient(c))
    /\ tokenFile = [exists |-> TRUE, parses |-> TRUE, tok |-> creds[c]]
    /\ \E r \in 1..Len(reqs) :
         reqs[r].att = c /\ reqs[r].phase = "done" /\ reqs[r].res = "200"

\* C18: a call whose loaded record passes the liveness check returns the
\* authenticated client with no authorization URL opened, no listener
\* started and no timer armed; the liveness check runs only on a record that
\* could be loaded; and a call opens the authorization URL only when it
\* could load no record or when its liveness check has just failed.
C18_LiveRecordSkipsInteractive ==
  [][\A c \in Calls :
       /\ live'[c] = "ok"
          => /\ ~urlOpened'[c]
             /\ listener'[c] = "none"
             /\ timer'[c] = "none"
             /\ outcome'[c] = "none"
             /\ pc'[c] = "done"
             /\ result'[c] = Returned(OAuthClient(c))
       /\ (live[c] = "none" /\ live'[c] = "checking")
          => (tokenFile.exists /\ tokenFile.parses)
       /\ (~urlOpened[c] /\ urlOpened'[c])
          => \/ pc[c] = "idle" /\ ~(tokenFile.exists /\ tokenFile.parses)
             \/ live[c] = "checking" /\ live'[c] = "failed"]_vars

\* C18 witness: a call returned its client after the liveness check of the
\* record it loaded succeeded by a refresh, with no URL opened and no
\* listener started
C18_Witness ==
  \E c \in Calls :
    /\ live[c] = "ok" /\ result[c] = Returned(OAuthClient(c))
    /\ loads = 1
    /\ tokenFile.exists /\ tokenFile.parses /\ tokenFile.tok.at = NoAccess
    /\ creds[c].at # NoAccess
    /\ ~urlOpened[c] /\ listener[c] = "none" /\ reqs = <<>>

\* C19 as stated: when the liveness check fails the credential file is left
\* unchanged, the client no longer holds the stale record, and the call
\* goes on to the interactive flow.
C19_StaleRecordDiscarded ==
  [][\A c \in Calls :
       (live[c] = "checking" /\ live'[c] = "failed")
       => /\ tokenFile' = tokenFile
          /\ saves' = saves
          /\ creds'[c] = NoCreds
          /\ pc'[c] = "opening"
          /\ result'[c] = NoResult]_vars

\* C19: when the liveness check fails the credential file is left unchanged
\* (no write), the call goes on to the interactive flow (the authorization
\* URL is opened) with no result delivered, and the client still holds the
\* stale record: its credentials change only when a code exchange of the
\* same call succeeds and binds the new tokens.
C19_StaleRecordKept ==
  [][\A c \in Calls :
       /\ (live[c] = "checking" /\ live'[c] = "failed")
          => /\ tokenFile' = tokenFile
             /\ saves' = saves
             /\ creds'[c] = creds[c]
             /\ pc'[c] = "opening"
             /\ urlOpened'[c]
             /\ result'[c] = NoResult
       /\ (live[c] = "failed" /\ creds'[c] # creds[c])
          => \E r \in 1..Len(reqs) :
               /\ reqs[r].att = c
               /\ reqs[r].phase = "exchanging"
               /\ reqs'[r].phase \in {"bound", "done"}
               /\ creds'[c] = reqs'[r].tok]_vars

\* C19 witness: a call whose liveness check failed awaits its callback while
\* its client still holds the record loaded from the unchanged file
C19_Witness ==
  \E c \in Calls :
    /\ live[c] = "failed"
    /\ pc[c] = "waiting"
    /\ creds[c].rt
    /\ tokenFile = [exists |-> TRUE, parses |-> TRUE, tok |-> creds[c]]
    /\ saves = <<>>

\* the positions whose per-item operation is in flight
InFlight == {p \in 1..N : items[p].state = "pending"}

\* C20: in a batch call with chunk size >= 1 no operation of a later chunk
\* is started until every operation of every earlier chunk has settled, the
\* operations in flight all belong to the current chunk, and at no moment
\* are more than chunk-size operations in flight.
C20_ChunksInSequence ==
  (clientOk /\ batchSize >= 1) =>
    /\ Cardinality(InFlight) <= batchSize
    /\ InFlight \subseteq {batch[k] : k \in 1..Len(batch)}
    /\ \A p, q \in 1..N :
         ((p - 1) \div batchSize < (q - 1) \div batchSize /\ invoked[q] >= 1)
         => (invoked[p] = 1 /\ items[p].state = "fulfilled")

\* C20 witness: the second chunk of a call with chunk size >= 2 has a full
\* chunk of operations in flight
C20_Witness ==
  /\ clientOk /\ batchSize >= 2
  /\ bpc = "await"
  /\ i = batchSize
  /\ Cardinality(InFlight) = batchSize


\* the positions whose per-item operation has been invoked
Started == {p \in 1..N : invoked[p] >= 1}

\* C21: in a batch call with chunk size >= 1 that got its client, every
\* chunk is a run of consecutive positions, at least one and at most chunk
\* size of them, that starts right after the positions of the chunks before
\* it; no operation is ever invoked twice; and a call that completes has
\* invoked the operation exactly once for every position, whether it
\* succeeded or failed.
C21_PartitionWithoutRetries ==
  (clientOk /\ batchSize >= 1) =>
    /\ \A p \in 1..N : invoked[p] <= 1
    /\ opFailed \subseteq Started
    /\ bpc = "await" =>
         /\ Len(batch) >= 1 /\ Len(batch) <= batchSize
         /\ \A k \in 1..Len(batch) : batch[k] = i + k
         /\ Started = 1..(i + Len(batch))
         /\ (Len(batch) < batchSize => i + Len(batch) = N)
    /\ bpc = "loop" => Started = 1..Min2(i, N)
    /\ bpc = "done" =>
         /\ response.kind = "completed"
         /\ \A p \in 1..N : invoked[p] = 1
         /\ Len(completion) = N

\* C21 witness: a call completed whose list is longer than the chunk size
\* and not a multiple of it, with an operation that failed in the first
\* chunk and one that failed in the last
C21_Witness ==
  /\ bpc = "done" /\ clientOk /\ batchSize >= 2
  /\ N > batchSize /\ N % batchSize # 0
  /\ 1 \in opFailed /\ N \in opFailed
  /\ \A p \in 1..N : invoked[p] = 1


\* the header block of a message text, as a reader of the message takes it:
\* the lines before the first blank line, in order
HeaderBlock(s) ==
  SubSeq(s, 1, IF BlankLineAt(s) = 0 THEN Len(s) ELSE BlankLineAt(s) - 1)
RECURSIVE Lines(_)
Lines(h) ==
  LET breaks == {k \in 1..Len(h) : h[k] = 10}
  IN  IF breaks = {} THEN <<h>>
      ELSE LET b == CHOOSE k \in breaks : \A k2 \in breaks : k <= k2
           IN  <<SubSeq(h, 1, b - 1)>> \o Lines(SubSeq(h, b + 1, Len(h)))
HeaderLineList(s) == Lines(HeaderBlock(s))

\* the field name of a header line: what stands before its first colon
FieldName(line) ==
  LET colons == {k \in 1..Len(line) : line[k] = 58}
  IN  IF colons = {} THEN line
      ELSE SubSeq(line, 1, (CHOOSE k \in colons : \A k2 \in colons : k <= k2) - 1)
HeaderNames(s) ==
  [k \in 1..Len(HeaderLineList(s)) |-> FieldName(HeaderLineList(s)[k])]

\* the Content-Type header lines of a message text
ContentTypeHeaders(s) ==
  SelectSeq(HeaderLineList(s), LAMBDA l : FieldName(l) = FieldName(PlainType))

\* C22: every message built with content mode plain or html has exactly one
\* Content-Type header line; when the mode is html or an html body is
\* present the line is text/html; charset=utf-8 and the content is the html
\* body, or the plain body when there is no html body; otherwise the line is
\* text/plain; charset=utf-8 and the content is the plain body.
C22_SinglePartContentType ==
  (mpc = "built" /\ mail.mimeType # "multipart/alternative")
  => IF mail.mimeType = "text/html" \/ Truthy(mail.htmlBody)
     THEN /\ ContentTypeHeaders(email) = <<HtmlType>>
          /\ AfterBlankLine(email) =
               (IF Truthy(mail.htmlBody) THEN mail.htmlBody.s ELSE mail.body)
     ELSE /\ ContentTypeHeaders(email) = <<PlainType>>
          /\ AfterBlankLine(email) = mail.body

\* the field names the header block is to hold for a message, in order
ExpectedNames(m) ==
  <<FieldName(ToPrefix), FieldName(SubjectPrefix)>>
  \o (IF m.cc # <<>> THEN <<FieldName(CcPrefix)>> ELSE <<>>)
  \o (IF m.bcc # <<>> THEN <<FieldName(BccPrefix)>> ELSE <<>>)
  \o (IF Truthy(m.inReplyTo) THEN <<FieldName(InReplyToPrefix)>> ELSE <<>>)
  \o (IF Truthy(m.threadId) THEN <<FieldName(ReferencesPrefix)>> ELSE <<>>)
  \o <<FieldName(PlainType)>>

\* C23: the header lines of every built message are, in this order, To,
\* Subject, Cc, Bcc, In-Reply-To, References and Content-Type, with To,
\* Subject and Content-Type always there and each of the other four there
\* exactly when its field is non-empty; the References line carries the
\* thread id.
C23_HeaderOrder ==
  mpc = "built"
  => /\ HeaderNames(email) = ExpectedNames(mail)
     /\ Truthy(mail.threadId) =>
          \E k \in 1..Len(HeaderLineList(email)) :
            HeaderLineList(email)[k] = ReferencesPrefix \o mail.threadId.s


\* the promise of an attempt has been settled
Settled(c) == outcome[c] \in {"resolved", "rejected"}

\* C24: the outcome of an interactive attempt is settled at most once: once
\* the promise of an attempt is resolved or rejected, no step (the timer
\* firing, a further request, an exchange that completes or fails) changes
\* whether it was resolved or rejected, the result delivered to the caller
\* or the caller's position.
C24_SettledOnce ==
  [][\A c \in Calls :
       Settled(c) => /\ outcome'[c] = outcome[c]
                     /\ result'[c] = result[c]
                     /\ pc'[c] = pc[c]]_vars

\* C24 witness: the timer rejected an attempt while a code exchange was in
\* flight, the exchange then completed and its handler ran to resolve(),
\* and the caller still has the timeout failure
C24_Witness ==
  \E c \in Calls, r \in 1..Len(reqs) :
    /\ reqs[r].att = c /\ reqs[r].phase = "done"
    /\ timer[c] = "fired"
    /\ outcome[c] = "rejected"
    /\ result[c] = Failed(TimeoutMsg)


\* once the shared client is set, a step leaves it as it is
ClientKept == gmailClient # NullClient => gmailClient' = gmailClient

\* a call that enters initializeGmailClient when the shared client is set
\* returns that client at once: no read or write of the credential file, no
\* liveness check, no listener
EntersCached(c) ==
  (pc[c] = "idle" /\ pc'[c] # "idle" /\ gmailClient # NullClient)
  => /\ pc'[c] = "done"
     /\ result'[c] = Returned(gmailClient)
     /\ loads' = loads /\ saves' = saves /\ tokenFile' = tokenFile
     /\ live' = live /\ listener' = listener /\ urlOpened' = urlOpened

\* a call that fails does not touch the shared client
FailureLeavesClient(c) ==
  (result[c].status # "error" /\ result'[c].status = "error")
  => gmailClient' = gmailClient

\* C25: once initializeGmailClient has completed successfully the shared
\* client is set and no step sets it again; a call made after that returns
\* that same client without reading or writing the credential file, running
\* a liveness check or starting a listener; and a call that fails leaves the
\* shared client as it was.
C25_SharedClientSetOnce ==
  [][/\ ClientKept
     /\ \A c \in Calls : EntersCached(c)
     /\ \A c \in Calls : FailureLeavesClient(c)]_vars


\* C26: every call of a batch tool comes to its end, whatever id list and
\* whatever batchSize the schema accepts (0 and negative numbers included):
\* the loop leaves the id list behind and a response is returned.
C26_BatchTerminates == <>(bpc = "done" /\ response # NoResponse)

=============================================================================
